---- MODULE Spec2Model ----
(***************************************************************************)
(* FishFlow frontend: the movement model's matrix chain calculator         *)
(* (SidePanels.js, MovementPanel) and the depth model's chunk cache and    *)
(* resolver (depthDataLoader.js, DepthModel.js).                           *)
(*                                                                         *)
(* Dates are day numbers.  The JavaScript date arithmetic of the           *)
(* calculators (new Date(s); setDate(getDate() +/- i); toISOString())      *)
(* is modelled as integer addition, which is what it computes in a         *)
(* runtime time zone without a daylight-saving transition inside the       *)
(* window.                                                                 *)
(***************************************************************************)
EXTENDS Integers, Sequences, FiniteSets, TLC

VARIABLES
    movementMatrices,   \* App state: the matrix store, date -> matrix
    calc,               \* one evaluation of MovementPanel.analysisData
    currentScenario,    \* DepthModel state: scenario id, 0 for null
    loadedData,         \* DepthModel state: the chunk cache, month -> depth -> chunk
    loadingProgress,    \* DepthModel state: the isLoading flag of {loaded, total, isLoading}
    calls,              \* the running invocations of handleFiltersChange
    appScenario,        \* App state: currentScenario, scenario id, 0 for null
    currentDate,        \* App state: the pivot date, 0 for null
    requests,           \* App: the fetches in flight (scenario data, matrix ranges)
    selectedCells,      \* App state: the array of selected cell ids
    fetchesIssued,      \* App: the calls of fetch for matrices so far, modulo NumFetchCounts
    monthsCall,         \* one call of getRequiredMonths: time zone, argument, result
    occupancy,          \* the backend's occupancy data of the scenario shown
    props               \* the props of MinimumRiskMap and RiskTimeSeries

movementVars == <<movementMatrices, calc>>
depthVars == <<currentScenario, loadedData, loadingProgress, calls>>
loaderVars == <<appScenario, currentDate, requests, selectedCells, fetchesIssued>>
riskVars == <<occupancy, props, monthsCall>>
vars == <<movementMatrices, calc, currentScenario, loadedData, loadingProgress, calls,
          appScenario, currentDate, requests, selectedCells, fetchesIssued, occupancy, props, monthsCall>>

(***************************************************************************)
(* Bounds of the model.                                                    *)
(***************************************************************************)
NumCells == 2       \* N, the grid size of the scenario
NumDates == 3       \* days the backend holds matrices for
MaxWindow == 2      \* scenario.maximum_window_size
NumScenarios == 2   \* scenarios of the catalog
NumMonths == 2      \* calendar months a date range can span
NumDepthLayers == 2 \* depth layers of the scenario
MaxCalls == 2       \* invocations of handleFiltersChange running at once
DaysPerMonth == 1   \* days of a calendar month
TicksPerDay == 3    \* times of day a timestamp can have
MaxProbability == 2 \* occupancy probabilities are 0 .. MaxProbability
MaxRanges == 2      \* time-of-day ranges of a filter state
NumFetchCounts == 3 \* the matrix fetches issued are counted modulo this
CalendarMonths == 3 \* calendar months the dates of a date range lie in
CalendarDays == 3   \* days of a calendar month
DayParts == 2       \* instants of a day; a time zone is ahead or behind by one

Cells == 0 .. (NumCells - 1)
Dates == 1 .. NumDates
PivotDates == 1 .. (NumDates + 1)
Windows == 1 .. MaxWindow

EmptyObject == <<>>         \* the object literal {}: no key
NullMatrix == <<>>          \* `let B = null`, before the first matrix

(***************************************************************************)
(* Transition matrices the backend may serve: N x N, non-negative.         *)
(***************************************************************************)
Stay == [i \in Cells |-> [j \in Cells |-> IF j = i THEN 1 ELSE 0]]

Advance == [i \in Cells |-> [j \in Cells |-> IF j = (i + 1) % NumCells THEN 1 ELSE 0]]

Gather(c) == [i \in Cells |-> [j \in Cells |-> IF j = c THEN 1 ELSE 0]]

Upper == [i \in Cells |-> [j \in Cells |-> IF i <= j THEN 1 ELSE 0]]

MatrixPool == {Stay, Advance, Upper} \cup {Gather(c) : c \in Cells}

(***************************************************************************)
(* Arithmetic of the calculators.                                          *)
(***************************************************************************)
RECURSIVE SumTo(_, _)
\* f[0] + f[1] + ... + f[n], added in ascending index order as the loops do
SumTo(f, n) == IF n < 0 THEN 0 ELSE SumTo(f, n - 1) + f[n]

MatVecTransposed(M, v) ==
    [i \in Cells |-> SumTo([j \in Cells |-> M[j][i] * v[j]], NumCells - 1)]

\* newResult[i] += M[i][j] * result[j]
MatVec(M, v) ==
    [i \in Cells |-> SumTo([j \in Cells |-> M[i][j] * v[j]], NumCells - 1)]

MatMulSwapped(B, M) ==
    [i \in Cells |-> [j \in Cells |->
        SumTo([k \in Cells |-> M[i][k] * B[k][j]], NumCells - 1)]]

\* newB[i][j] += B[i][k] * M[k][j]
MatMul(B, M) ==
    [i \in Cells |-> [j \in Cells |->
        SumTo([k \in Cells |-> B[i][k] * M[k][j]], NumCells - 1)]]

\* x = new Array(n).fill(0); selectedCells.forEach(c => { if (c < n) x[c] = 1 })
IndicatorVector(selection) ==
    [i \in Cells |-> IF \E c \in selection : c < NumCells /\ c = i THEN 1 ELSE 0]

RowDots(B, x) ==
    [j \in Cells |-> SumTo([i \in Cells |-> B[j][i] * x[i]], NumCells - 1)]

\* dotProduct += B[i][j] * x[i], for each column j
ColumnDots(B, x) ==
    [j \in Cells |-> SumTo([i \in Cells |-> B[i][j] * x[i]], NumCells - 1)]

(***************************************************************************)
(* The date sequences of the two calculators, in loop order.               *)
(***************************************************************************)
ProjectionDatesDescending(t, w) == [i \in 1 .. w |-> t + w - i]

\* for (i = 0; i < timeWindow; i++) date = currentDate + i
ProjectionDates(t, w) == [i \in 1 .. w |-> t + (i - 1)]

\* for (i = 1; i <= timeWindow; i++) date = currentDate - i
BasinDates(t, w) == [i \in 1 .. w |-> t - i]

RequiredDates(fn, t, w) ==
    IF fn = "projection" THEN ProjectionDates(t, w) ELSE BasinDates(t, w)

\* !movementMatrices[dateStr]: the store has no key dateStr
Absent(store, d) == d \notin DOMAIN store

FirstMissingLastUnchecked(store, dates) ==
    IF \E k \in 1 .. (Len(dates) - 1) : Absent(store, dates[k])
    THEN LET k == CHOOSE k \in 1 .. (Len(dates) - 1) :
                    /\ Absent(store, dates[k])
                    /\ \A h \in 1 .. (k - 1) : ~Absent(store, dates[h])
         IN  k
    ELSE 0

\* The first loop of either calculator: the index, in loop order, of the first
\* date with !movementMatrices[dateStr]; 0 when the loop runs to its end.
FirstMissing(store, dates) ==
    IF \E k \in 1 .. Len(dates) : Absent(store, dates[k])
    THEN LET k == CHOOSE k \in 1 .. Len(dates) :
                    /\ Absent(store, dates[k])
                    /\ \A h \in 1 .. (k - 1) : ~Absent(store, dates[h])
         IN  k
    ELSE 0

(***************************************************************************)
(* MovementPanel.analysisData and the calculation function it calls.  The  *)
(* functions are synchronous: between CalcStart and CalcFinish no other    *)
(* handler runs.                                                           *)
(***************************************************************************)
CalcIdle ==
    [pc |-> "idle", fn |-> "none", selectedCells |-> {}, currentDate |-> 0,
     timeWindow |-> 0, dates |-> <<>>, k |-> 0, x |-> <<>>, acc |-> NullMatrix,
     mults |-> 0, warned |-> <<>>, called |-> FALSE,
     returned |-> "nothing", analysisData |-> EmptyObject]

CalcStartWithoutSelectionGuard(fn, S, t, w) ==
    /\ calc.pc = "idle"
    /\ LET dates == RequiredDates(fn, t, w)
           miss == FirstMissing(movementMatrices, dates)
           base == [CalcIdle EXCEPT !.fn = fn, !.selectedCells = S,
                                    !.currentDate = t, !.timeWindow = w]
       IN  calc' =
             IF miss # 0
             THEN [base EXCEPT !.pc = "done", !.called = TRUE, !.warned = <<dates[miss]>>,
                               !.returned = "object",
                               !.analysisData = EmptyObject]
             ELSE [base EXCEPT !.pc = "multiply", !.called = TRUE,
                               !.dates = dates, !.k = 1,
                               !.x = IndicatorVector(S),
                               !.acc = IF fn = "projection"
                                       THEN IndicatorVector(S) ELSE NullMatrix]
    /\ UNCHANGED <<movementMatrices, depthVars, loaderVars, riskVars>>

\* useMemo of MovementPanel, up to and including the first loop of the
\* calculation function it calls
CalcStart(fn, S, t, w) ==
    /\ calc.pc = "idle"
    /\ LET dates == RequiredDates(fn, t, w)
           miss == FirstMissing(movementMatrices, dates)
           base == [CalcIdle EXCEPT !.fn = fn, !.selectedCells = S,
                                    !.currentDate = t, !.timeWindow = w]
       IN  calc' =
             IF S = {}
             THEN \* selectedCells.length === 0: return null
                  [base EXCEPT !.pc = "done", !.returned = "null"]
             ELSE IF miss # 0
             THEN \* console.warn(`Missing matrix for date ...`); return {}
                  [base EXCEPT !.pc = "done", !.called = TRUE, !.warned = <<dates[miss]>>,
                               !.returned = "object",
                               !.analysisData = EmptyObject]
             ELSE [base EXCEPT !.pc = "multiply", !.called = TRUE,
                               !.dates = dates, !.k = 1,
                               !.x = IndicatorVector(S),
                               !.acc = IF fn = "projection"
                                       THEN IndicatorVector(S) ELSE NullMatrix]
    /\ UNCHANGED <<movementMatrices, depthVars, loaderVars, riskVars>>

\* one iteration of `for (const dateStr of dates)`
CalcMultiply ==
    /\ calc.pc = "multiply"
    /\ calc.k <= Len(calc.dates)
    /\ LET M == movementMatrices[calc.dates[calc.k]]
       IN  calc' =
             IF calc.fn = "projection"
             THEN [calc EXCEPT !.acc = MatVec(M, calc.acc),
                               !.mults = calc.mults + 1, !.k = calc.k + 1]
             ELSE IF DOMAIN calc.acc = {}
             THEN [calc EXCEPT !.acc = M, !.k = calc.k + 1]
             ELSE [calc EXCEPT !.acc = MatMul(calc.acc, M),
                               !.mults = calc.mults + 1, !.k = calc.k + 1]
    /\ UNCHANGED <<movementMatrices, depthVars, loaderVars, riskVars>>

\* the conversion of the accumulator to the cell_id -> value object
CalcFinish ==
    /\ calc.pc = "multiply"
    /\ calc.k > Len(calc.dates)
    /\ calc' = [calc EXCEPT
                  !.pc = "done",
                  !.returned = "object",
                  !.analysisData =
                      IF calc.fn = "projection"
                      THEN [i \in Cells |-> calc.acc[i]]
                      ELSE ColumnDots(calc.acc, calc.x)]
    /\ UNCHANGED <<movementMatrices, depthVars, loaderVars, riskVars>>

\* setMovementMatrices(prev => ({...prev, ...newMatrices})), in whatever order
\* the responses arrive.  movementMatrices is a dependency of useMemo, so a
\* memoised value does not survive the merge: it is taken from the state in
\* which the value has been dropped.
MergeMatrices(newMatrices) ==
    /\ calc.pc = "idle"
    /\ newMatrices # <<>>
    /\ movementMatrices' =
         [d \in (DOMAIN movementMatrices) \cup (DOMAIN newMatrices) |->
            IF d \in DOMAIN newMatrices THEN newMatrices[d] ELSE movementMatrices[d]]
    /\ UNCHANGED <<calc, depthVars, loaderVars, riskVars>>

\* handleCellsChange, handleDateChange, handleTimeWindowChange: a dependency
\* of useMemo changes, the memoised value is dropped and computed again
DependencyChange ==
    /\ calc.pc = "done"
    /\ calc' = CalcIdle
    /\ UNCHANGED <<movementMatrices, depthVars, loaderVars, riskVars>>

(***************************************************************************)
(* The depth model: chunk cache and resolver.                              *)
(*                                                                         *)
(* A date range is held at month granularity: start and end are months,    *)
(* 0 for null.  The backend serves one immutable chunk per (scenario,      *)
(* month, depth); a chunk is the pair of its cells and its timestamps.     *)
(***************************************************************************)
Scenarios == 1 .. NumScenarios
Months == 1 .. NumMonths
Depths == 1 .. NumDepthLayers
CallIds == 1 .. MaxCalls

Concurrency == 3    \* const concurrency = 3

\* data.data.cells and data.data.timestamps of the response to
\* /occupancy?month=<m>-01&depth_bin=<d> of scenario s
ResponseCells(s, m, d) == <<"cells", s, m, d>>
ResponseTimestamps(s, m, d) == <<"timestamps", s, m, d>>

ChunkCellsOnly(cellData, timestamps) == [cells |-> cellData, timestamps |-> <<>>]

\* results[m][d] = {cells: cellData, timestamps: timestamps}
Chunk(cellData, timestamps) == [cells |-> cellData, timestamps |-> timestamps]

\* the filter states the filter panels can apply: each max-depth category
\* selects depth layers no deeper than itself
DateRanges == [start : 0 .. NumMonths, end : 0 .. NumMonths]
DepthSelections ==
    {sel \in [Depths -> SUBSET Depths] : \A c \in Depths : \A d \in sel[c] : d <= c}
FilterStates == [dateRange : DateRanges, depthBins : DepthSelections]

RECURSIVE SortAscending(_)
\* Array.from(set).sort((a, b) => a - b)
SortAscending(S) ==
    IF S = {} THEN <<>>
    ELSE LET least == CHOOSE a \in S : \A b \in S : a <= b
         IN  <<least>> \o SortAscending(S \ {least})

getRequiredMonths(dateRange) ==
    IF dateRange.start = 0 \/ dateRange.end = 0 THEN <<>>
    ELSE [k \in 1 .. (dateRange.end - dateRange.start + 1) |-> dateRange.start + k - 1]

getRequiredDepthBins(depthBins) ==
    SortAscending(UNION {depthBins[c] : c \in DOMAIN depthBins})

\* loadedChunks[month] && loadedChunks[month][depth]
HasChunk(data, month, depth) ==
    month \in DOMAIN data /\ depth \in DOMAIN data[month]

\* months.forEach(month => depthBins.forEach(depth => ...)): the pairs in
\* the order of the two nested loops
CrossProduct(months, depthBins) ==
    [k \in 1 .. (Len(months) * Len(depthBins)) |->
        <<months[((k - 1) \div Len(depthBins)) + 1],
          depthBins[((k - 1) % Len(depthBins)) + 1]>>]

getMissingChunksIgnoringCache(months, depthBins, loadedChunks) ==
    CrossProduct(months, depthBins)

getMissingChunksByMonth(months, depthBins, loadedChunks) ==
    LET Missing(pair) == pair[1] \notin DOMAIN loadedChunks
    IN  SelectSeq(CrossProduct(months, depthBins), Missing)

getMissingChunks(months, depthBins, loadedChunks) ==
    LET Missing(pair) == ~HasChunk(loadedChunks, pair[1], pair[2])
    IN  SelectSeq(CrossProduct(months, depthBins), Missing)

\* if (!results[m]) results[m] = {}; results[m][d] = chunk
PutChunk(data, m, d, chunk) ==
    LET inner == IF m \in DOMAIN data THEN data[m] ELSE <<>>
    IN  [mm \in (DOMAIN data) \cup {m} |->
            IF mm = m
            THEN [dd \in (DOMAIN inner) \cup {d} |-> IF dd = d THEN chunk ELSE inner[dd]]
            ELSE data[mm]]

MergeDataReplacingMonth(prev, newData) ==
    [m \in (DOMAIN prev) \cup (DOMAIN newData) |->
        IF m \in DOMAIN newData THEN newData[m] ELSE prev[m]]

\* the updater of setLoadedData: merged = {...prev};
\* merged[month][depth] = newData[month][depth] for every key of newData
MergeData(prev, newData) ==
    [m \in (DOMAIN prev) \cup (DOMAIN newData) |->
        IF m \notin DOMAIN newData THEN prev[m]
        ELSE LET old == IF m \in DOMAIN prev THEN prev[m] ELSE <<>>
             IN  [d \in (DOMAIN old) \cup (DOMAIN newData[m]) |->
                    IF d \in DOMAIN newData[m] THEN newData[m][d] ELSE old[d]]]

\* chunks.slice(i, i + concurrency), as indices into chunks
Batch(chunks, i) ==
    {k \in 1 .. Len(chunks) : i < k /\ k <= i + Concurrency}

Settled(st) == st \in {"ok", "failed"}

BatchAnySettled(status, batch) == \E k \in batch : Settled(status[k])

\* await Promise.all(batchPromises): no batch promise rejects, so it resolves
\* when the last fetch of the batch has settled
BatchSettled(status, batch) == \A k \in batch : Settled(status[k])

CallIdle ==
    [pc |-> "idle", scenarioId |-> 0, currentData |-> <<>>, months |-> <<>>,
     depths |-> <<>>, chunks |-> <<>>, i |-> 0, status |-> <<>>,
     results |-> <<>>, loaded |-> 0, progress |-> <<>>]

OnSettleSilentFailure(rec, k, ok) ==
    LET m == rec.chunks[k][1]
        d == rec.chunks[k][2]
    IN  IF ok
        THEN [rec EXCEPT
                !.status[k] = "ok",
                !.results = PutChunk(rec.results, m, d,
                               Chunk(ResponseCells(rec.scenarioId, m, d),
                                     ResponseTimestamps(rec.scenarioId, m, d))),
                !.loaded = rec.loaded + 1,
                !.progress = Append(rec.progress, <<rec.loaded + 1, Len(rec.chunks)>>)]
        ELSE [rec EXCEPT !.status[k] = "failed"]

OnSettleStoringFailure(rec, k, ok) ==
    LET m == rec.chunks[k][1]
        d == rec.chunks[k][2]
    IN  [rec EXCEPT
            !.status[k] = IF ok THEN "ok" ELSE "failed",
            !.results = PutChunk(rec.results, m, d,
                           Chunk(ResponseCells(rec.scenarioId, m, d),
                                 ResponseTimestamps(rec.scenarioId, m, d))),
            !.loaded = rec.loaded + 1,
            !.progress = Append(rec.progress, <<rec.loaded + 1, Len(rec.chunks)>>)]

\* one batch promise of loadDataChunks after its await of loadDataChunk: the
\* try branch stores the chunk, the catch branch logs; both count and report
OnSettle(rec, k, ok) ==
    LET m == rec.chunks[k][1]
        d == rec.chunks[k][2]
    IN  IF ok
        THEN [rec EXCEPT
                !.status[k] = "ok",
                !.results = PutChunk(rec.results, m, d,
                               Chunk(ResponseCells(rec.scenarioId, m, d),
                                     ResponseTimestamps(rec.scenarioId, m, d))),
                !.loaded = rec.loaded + 1,
                !.progress = Append(rec.progress, <<rec.loaded + 1, Len(rec.chunks)>>)]
        ELSE [rec EXCEPT
                !.status[k] = "failed",
                !.loaded = rec.loaded + 1,
                !.progress = Append(rec.progress, <<rec.loaded + 1, Len(rec.chunks)>>)]

IssueBatchUnlessFailed(rec, i) ==
    IF \E k \in 1 .. Len(rec.chunks) : rec.status[k] = "failed"
    THEN [rec EXCEPT !.i = i]
    ELSE [rec EXCEPT !.i = i,
                     !.status = [k \in 1 .. Len(rec.chunks) |->
                                    IF k \in Batch(rec.chunks, i) THEN "pending"
                                    ELSE rec.status[k]]]

\* statuses after the fetches of chunks.slice(i, i + concurrency) are issued
IssueBatch(rec, i) ==
    [rec EXCEPT !.i = i,
                !.status = [k \in 1 .. Len(rec.chunks) |->
                               IF k \in Batch(rec.chunks, i) THEN "pending"
                               ELSE rec.status[k]]]

\* Synchronous code and promise continuations run before any other event:
\* while a call sits in "resolved" (loadRequiredData has computed what is
\* missing) or in "returned" (its handler has run to the end) nothing else
\* happens.
NoneRunning == \A c \in CallIds : calls[c].pc \notin {"resolved", "returned"}

FreeSlot(c) ==
    /\ calls[c].pc = "idle"
    /\ \A b \in CallIds : b < c => calls[b].pc # "idle"

\* handleFiltersChange(newFilters) into loadRequiredData, up to the list of
\* missing chunks
HandleFiltersChange(c, newFilters) ==
    /\ NoneRunning
    /\ FreeSlot(c)
    /\ currentScenario # 0
    /\ LET months == getRequiredMonths(newFilters.dateRange)
           depths == getRequiredDepthBins(newFilters.depthBins)
           missing == IF Len(months) = 0 \/ Len(depths) = 0 THEN <<>>
                      ELSE getMissingChunks(months, depths, loadedData)
       IN  calls' = [calls EXCEPT ![c] =
                [CallIdle EXCEPT !.pc = "resolved",
                                 !.scenarioId = currentScenario,
                                 !.currentData = loadedData,
                                 !.months = months, !.depths = depths,
                                 !.chunks = missing,
                                 !.status = [k \in 1 .. Len(missing) |-> "unissued"]]]
    /\ loadingProgress' = [loadingProgress EXCEPT !.isLoading = TRUE]
    /\ UNCHANGED <<currentScenario, loadedData, movementVars, loaderVars, riskVars>>

\* handleFiltersChange with no scenario selected: only the filter state is set
HandleFiltersChangeNoScenario ==
    /\ NoneRunning
    /\ currentScenario = 0
    /\ UNCHANGED vars

\* loadRequiredData after the list of missing chunks: nothing missing, and
\* handleFiltersChange merges the empty result and ends; otherwise
\* loadDataChunks issues its first batch and waits
StartLoading(c) ==
    /\ calls[c].pc = "resolved"
    /\ IF Len(calls[c].chunks) = 0
       THEN /\ calls' = [calls EXCEPT ![c].pc = "returned"]
            /\ loadedData' = MergeData(loadedData, calls[c].results)
            /\ loadingProgress' = [loadingProgress EXCEPT !.isLoading = FALSE]
       ELSE /\ calls' = [calls EXCEPT ![c] =
                           [IssueBatch(calls[c], 0) EXCEPT
                               !.pc = "loading", !.currentData = <<>>]]
            /\ UNCHANGED <<loadedData, loadingProgress>>
    /\ UNCHANGED <<currentScenario, movementVars, loaderVars, riskVars>>

\* one fetch of the current batch settles; when it is the last of its batch
\* the loop issues the next batch, and after the last batch loadDataChunks
\* returns and handleFiltersChange merges and clears the loading flag
FetchSettle(c, k, ok) ==
    /\ NoneRunning
    /\ calls[c].pc = "loading"
    /\ k \in 1 .. Len(calls[c].chunks)
    /\ calls[c].status[k] = "pending"
    /\ LET rec == OnSettle(calls[c], k, ok)
           reported == Len(rec.progress) > Len(calls[c].progress)
           \* onProgress: setLoadingProgress({loaded, total, isLoading: true})
           shown == IF reported THEN [isLoading |-> TRUE] ELSE loadingProgress
       IN  IF ~BatchSettled(rec.status, Batch(rec.chunks, rec.i))
           THEN /\ calls' = [calls EXCEPT ![c] = rec]
                /\ loadingProgress' = shown
                /\ UNCHANGED loadedData
           ELSE IF rec.i + Concurrency < Len(rec.chunks)
           THEN /\ calls' = [calls EXCEPT ![c] = IssueBatch(rec, rec.i + Concurrency)]
                /\ loadingProgress' = shown
                /\ UNCHANGED loadedData
           ELSE /\ calls' = [calls EXCEPT ![c] = [rec EXCEPT !.pc = "returned"]]
                /\ loadedData' = MergeData(loadedData, rec.results)
                /\ loadingProgress' = [shown EXCEPT !.isLoading = FALSE]
    /\ UNCHANGED <<currentScenario, movementVars, loaderVars, riskVars>>

\* the promise of a finished handleFiltersChange is dropped
Forget(c) ==
    /\ calls[c].pc = "returned"
    /\ calls' = [calls EXCEPT ![c] = CallIdle]
    /\ UNCHANGED <<currentScenario, loadedData, loadingProgress, movementVars, loaderVars, riskVars>>

\* handleFiltersChange(newFilters) as the next event after a filter
\* application has run to its end, up to the list of missing chunks
HandleFiltersChangeAfterReturn(c, newFilters) ==
    /\ calls[c].pc = "returned"
    /\ \A b \in CallIds : b # c => calls[b].pc = "idle"
    /\ currentScenario # 0
    /\ LET months == getRequiredMonths(newFilters.dateRange)
           depths == getRequiredDepthBins(newFilters.depthBins)
           missing == IF Len(months) = 0 \/ Len(depths) = 0 THEN <<>>
                      ELSE getMissingChunks(months, depths, loadedData)
       IN  calls' = [calls EXCEPT ![c] =
                [CallIdle EXCEPT !.pc = "resolved",
                                 !.scenarioId = currentScenario,
                                 !.currentData = loadedData,
                                 !.months = months, !.depths = depths,
                                 !.chunks = missing,
                                 !.status = [k \in 1 .. Len(missing) |-> "unissued"]]]
    /\ loadingProgress' = [loadingProgress EXCEPT !.isLoading = TRUE]
    /\ UNCHANGED <<currentScenario, loadedData, movementVars, loaderVars, riskVars>>

HandleScenarioChangeKeepingData(scenario) ==
    /\ NoneRunning
    /\ currentScenario' = scenario
    /\ loadingProgress' = [isLoading |-> FALSE]
    /\ UNCHANGED <<loadedData, calls, movementVars, loaderVars, riskVars>>

\* handleScenarioChange(scenario), the synchronous part
HandleScenarioChange(scenario) ==
    /\ NoneRunning
    /\ currentScenario' = scenario
    /\ loadedData' = <<>>
    /\ loadingProgress' = [isLoading |-> FALSE]
    /\ UNCHANGED <<calls, movementVars, loaderVars, riskVars>>

\* the first scenario of a session
HandleFirstScenario(scenario) ==
    /\ currentScenario = 0
    /\ HandleScenarioChange(scenario)

(***************************************************************************)
(* The movement model's matrix store: App's scenario, pivot date and the   *)
(* effects that load matrices.  An effect runs after the render that       *)
(* follows a state change, before any other event: a handler and the       *)
(* effects it triggers are one step.  The backend holds one immutable      *)
(* matrix per (scenario, date) for the dates of Dates.                     *)
(***************************************************************************)
\* matrixData.matrix of the response, for scenario s and date d
BackendMatrix(s, d) ==
    IF (s + d) % 3 = 0 THEN Stay ELSE IF (s + d) % 3 = 1 THEN Advance ELSE Upper

\* availableDates[0], the first date of the habitat data
FirstAvailableDate == 1

\* {start: currentDate - maximum_window_size, end: currentDate + maximum_window_size}
getRequiredDateRange(date, scenario) ==
    IF date = 0 \/ scenario = 0 THEN <<>>
    ELSE [start |-> date - MaxWindow, end |-> date + MaxWindow]

\* for (d = start; d <= end; d++) if (!existingMatrices[dateStr]) return true
needsMatrices(requiredRange, existingMatrices) ==
    IF requiredRange = <<>> THEN FALSE
    ELSE \E d \in requiredRange.start .. requiredRange.end : Absent(existingMatrices, d)

\* matrices[matrixData.date] = matrixData.matrix for the response to
\* /matrices?start_date=..&end_date=..; {} when the request fails
loadMatricesForRange(range, scenario, ok) ==
    IF ~ok THEN <<>>
    ELSE [d \in (range.start .. range.end) \cap Dates |-> BackendMatrix(scenario, d)]

SpreadReplacing(prev, newMatrices) == newMatrices

\* {...prev, ...newMatrices}
Spread(prev, newMatrices) ==
    [d \in (DOMAIN prev) \cup (DOMAIN newMatrices) |->
        IF d \in DOMAIN newMatrices THEN newMatrices[d] ELSE prev[d]]

MatrixRequest(scenario, range) ==
    [kind |-> "matrices", scenarioId |-> scenario, start |-> range.start, end |-> range.end]

HabitatRequest(scenario) ==
    [kind |-> "habitat", scenarioId |-> scenario, start |-> 0, end |-> 0]

\* the effect "Load matrices when date changes", run with the given values
\* of its dependencies: the requests it issues
LoadEffect(scenario, date, matrices) ==
    IF scenario # 0 /\ date # 0
          /\ needsMatrices(getRequiredDateRange(date, scenario), matrices)
    THEN {MatrixRequest(scenario, getRequiredDateRange(date, scenario))}
    ELSE {}

\* the count of fetches after the load effect has issued these requests
Counted(count, issued) == (count + Cardinality(issued)) % NumFetchCounts

\* handleScenarioLoad and the three effects on currentScenario: scenario
\* data is requested, the store is cleared, and the load effect runs in the
\* render before the clearing and again in the render after it
HandleScenarioLoad(scenario) ==
    /\ calc.pc = "idle"
    /\ scenario # appScenario
    /\ appScenario' = scenario
    /\ movementMatrices' = <<>>
    /\ requests' = requests \cup {HabitatRequest(scenario)}
                      \cup LoadEffect(scenario, currentDate, movementMatrices)
                      \cup LoadEffect(scenario, currentDate, <<>>)
    /\ selectedCells' = <<>>
    /\ fetchesIssued' = Counted(Counted(fetchesIssued,
                                         LoadEffect(scenario, currentDate, movementMatrices)),
                                 LoadEffect(scenario, currentDate, <<>>))
    /\ UNCHANGED <<calc, currentDate, depthVars, riskVars>>

\* the first scenario of a session
HandleFirstScenarioLoad(scenario) ==
    /\ appScenario = 0
    /\ HandleScenarioLoad(scenario)

\* loadScenarioData after its fetches: setCurrentDate(availableDates[0]) on
\* success, nothing on failure; then the load effect
ScenarioDataSettle(req, ok) ==
    /\ calc.pc = "idle"
    /\ req \in requests
    /\ req.kind = "habitat"
    /\ currentDate' = IF ok THEN FirstAvailableDate ELSE currentDate
    /\ requests' = (requests \ {req})
                      \cup (IF currentDate' # currentDate
                            THEN LoadEffect(appScenario, currentDate', movementMatrices)
                            ELSE {})
    /\ fetchesIssued' = IF currentDate' # currentDate
                        THEN Counted(fetchesIssued,
                                     LoadEffect(appScenario, currentDate', movementMatrices))
                        ELSE fetchesIssued
    /\ UNCHANGED <<movementMatrices, calc, appScenario, selectedCells, depthVars, riskVars>>

\* handleDateChange(newDate), then the load effect
HandleDateChange(newDate) ==
    /\ calc.pc = "idle"
    /\ appScenario # 0
    /\ newDate # currentDate
    /\ currentDate' = newDate
    /\ requests' = requests \cup LoadEffect(appScenario, newDate, movementMatrices)
    /\ fetchesIssued' = Counted(fetchesIssued, LoadEffect(appScenario, newDate, movementMatrices))
    /\ UNCHANGED <<movementMatrices, calc, appScenario, selectedCells, depthVars, riskVars>>

\* loadMatrices after its await: setMovementMatrices(prev => ({...prev,
\* ...newMatrices})); the store is a new object, so the load effect runs again
MatricesSettle(req, ok) ==
    /\ calc.pc = "idle"
    /\ req \in requests
    /\ req.kind = "matrices"
    /\ movementMatrices' =
          Spread(movementMatrices, loadMatricesForRange(req, req.scenarioId, ok))
    /\ requests' = (requests \ {req})
                      \cup LoadEffect(appScenario, currentDate, movementMatrices')
    /\ fetchesIssued' = Counted(fetchesIssued,
                                LoadEffect(appScenario, currentDate, movementMatrices'))
    /\ UNCHANGED <<calc, appScenario, currentDate, selectedCells, depthVars, riskVars>>

\* selectedCells.includes(cellId)
Includes(array, cellId) == \E k \in 1 .. Len(array) : array[k] = cellId

ToggleCellAppending(array, cellId) == Append(array, cellId)

\* newSelection of handleCellClick: selectedCells.filter(id => id !== cellId)
\* if the cell is selected, [...selectedCells, cellId] otherwise
ToggleCell(array, cellId) ==
    IF Includes(array, cellId)
    THEN SelectSeq(array, LAMBDA id : id # cellId)
    ELSE Append(array, cellId)

\* HabitatMap.handleCellClick -> App.handleCellsChange: setSelectedCells; the
\* polygons are drawn once habitat data, geometries and a date are there
handleCellClick(cellId) ==
    /\ calc.pc = "idle"
    /\ appScenario # 0
    /\ currentDate # 0
    /\ selectedCells' = ToggleCell(selectedCells, cellId)
    /\ UNCHANGED <<movementVars, appScenario, currentDate, requests, fetchesIssued,
                   depthVars, riskVars>>

InitLoaderVars ==
    /\ appScenario = 0
    /\ currentDate = 0
    /\ requests = {}
    /\ selectedCells = <<>>
    /\ fetchesIssued = 0

(***************************************************************************)
(* The risk aggregator: MinimumRiskMap.cellMinimumRisk and                 *)
(* RiskTimeSeries.timeSeriesData, pure functions of the props DepthModel   *)
(* hands down.  A timestamp is the number of its tick: TicksPerDay ticks a *)
(* day, DaysPerMonth days a month.  Date strings and timestamps are taken  *)
(* to be read in one time zone, so that new Date("<day>") is the first     *)
(* tick of the day.  Every chunk of a month carries the month's ticks and, *)
(* for every cell, one probability per tick.                               *)
(***************************************************************************)
Days == 1 .. (NumMonths * DaysPerMonth)
Ticks == 0 .. (TicksPerDay - 1)
TicksPerMonth == DaysPerMonth * TicksPerDay

\* useState(null) of selectedCell
NoCell == -1

\* data.data.timestamps of a chunk of month m
MonthTimestamps(m) == [k \in 1 .. TicksPerMonth |-> (m - 1) * TicksPerMonth + (k - 1)]

\* the tables the backend may hold: data.data.cells of the chunk (m, d)
Occupancy(v) ==
    [m \in Months |-> [d \in Depths |-> [c \in Cells |->
        [k \in 1 .. TicksPerMonth |-> (v * k + d * (m + c) + c) % (MaxProbability + 1)]]]]

OccupancyPool == {Occupancy(v) : v \in 1 .. 2}

\* new Date(dateString), for the date strings of the date range
DateOf(day) == (day - 1) * TicksPerDay

\* date.toTimeString().slice(0, 5)
TimeString(timestamp) == timestamp % TicksPerDay

TimeRanges == {r \in [start : Ticks, end : Ticks] : r.start < r.end}
TimeOfDaySelections == {R \in SUBSET TimeRanges : Cardinality(R) <= MaxRanges}
DayRanges ==
    {[start |-> 0, end |-> 0]} \cup {r \in [start : Days, end : Days] : r.start <= r.end}
DepthBinStates == {EmptyObject} \cup DepthSelections
CellMaxDepthArrays ==
    UNION {[1 .. n -> {0} \cup Depths] : n \in {0, NumCells}}

\* useState of filterState in DepthModel
DefaultFilterState ==
    [depthBins |-> EmptyObject, dateRange |-> [start |-> 0, end |-> 0],
     timeOfDay |-> {[start |-> 0, end |-> TicksPerDay - 1]}]

\* cellMaxDepths[cellId], null when there is no array or no such index
getCellMaxDepth(cellMaxDepths, cellId) ==
    IF cellId >= Len(cellMaxDepths) THEN 0 ELSE cellMaxDepths[cellId + 1]

\* filterState.depthBins[cellMaxDepth] || [], an array kept in ascending order
getSelectedDepthsForCell(filterState, cellMaxDepth) ==
    IF cellMaxDepth = 0 \/ cellMaxDepth \notin DOMAIN filterState.depthBins THEN <<>>
    ELSE SortAscending(filterState.depthBins[cellMaxDepth])

isTimestampInTimeOfDayFromStart(timestamp, timeOfDayRanges) ==
    \/ timeOfDayRanges = {}
    \/ \E range \in timeOfDayRanges : TimeString(timestamp) >= range.start

\* timeStr >= range.start && timeStr <= range.end for some range
isTimestampInTimeOfDay(timestamp, timeOfDayRanges) ==
    \/ timeOfDayRanges = {}
    \/ \E range \in timeOfDayRanges :
          TimeString(timestamp) >= range.start /\ TimeString(timestamp) <= range.end

filterTimestampsByTimeOfDay(filterState, timestamps) ==
    IF filterState.timeOfDay = {} THEN timestamps
    ELSE SelectSeq(timestamps,
             LAMBDA timestamp :
                 \E range \in filterState.timeOfDay :
                     /\ TimeString(timestamp) >= range.start
                     /\ TimeString(timestamp) <= range.end)

filterTimestampsByDateRange(filterState, timestamps) ==
    IF filterState.dateRange.start = 0 \/ filterState.dateRange.end = 0 THEN timestamps
    ELSE SelectSeq(timestamps,
             LAMBDA timestamp :
                 /\ timestamp >= DateOf(filterState.dateRange.start)
                 /\ timestamp <= DateOf(filterState.dateRange.end))

\* rawTimestamps.indexOf(timestamp), counted from 1; 0 when not found
IndexOf(rawTimestamps, timestamp) ==
    IF \E k \in 1 .. Len(rawTimestamps) : rawTimestamps[k] = timestamp
    THEN CHOOSE k \in 1 .. Len(rawTimestamps) :
            /\ rawTimestamps[k] = timestamp
            /\ \A h \in 1 .. (k - 1) : rawTimestamps[h] # timestamp
    ELSE 0

\* the depths of selectedDepths that add to sumProbability at an index
Contributing(monthData, selectedDepths, cell_id, index) ==
    {i \in 1 .. Len(selectedDepths) :
        /\ selectedDepths[i] \in DOMAIN monthData
        /\ cell_id \in DOMAIN monthData[selectedDepths[i]].cells
        /\ index <= Len(monthData[selectedDepths[i]].cells[cell_id])}

RECURSIVE SumOver(_, _, _, _, _)
\* sumProbability after the first n depths of selectedDepths.forEach
SumOver(monthData, selectedDepths, cell_id, index, n) ==
    IF n = 0 THEN 0
    ELSE SumOver(monthData, selectedDepths, cell_id, index, n - 1)
         + (IF n \in Contributing(monthData, selectedDepths, cell_id, index)
            THEN monthData[selectedDepths[n]].cells[cell_id][index] ELSE 0)

SumProbabilityFirstDepth(monthData, selectedDepths, cell_id, index) ==
    SumOver(monthData, selectedDepths, cell_id, index, 1)

SumProbability(monthData, selectedDepths, cell_id, index) ==
    SumOver(monthData, selectedDepths, cell_id, index, Len(selectedDepths))

HasDataWhenPositive(monthData, selectedDepths, cell_id, index) ==
    SumProbability(monthData, selectedDepths, cell_id, index) > 0

\* hasData: some selected depth added a probability
HasData(monthData, selectedDepths, cell_id, index) ==
    Contributing(monthData, selectedDepths, cell_id, index) # {}

\* what one month pushes on allProbabilities, each value with the
\* timestamp it was summed for
MonthProbabilities(p, cell_id, selectedDepths, month) ==
    LET monthData == p.loadedData[month]
    IN  IF selectedDepths[1] \notin DOMAIN monthData THEN {}
        ELSE LET rawTimestamps == monthData[selectedDepths[1]].timestamps
                 finalFilteredTimestamps ==
                     filterTimestampsByTimeOfDay(p.filterState,
                         filterTimestampsByDateRange(p.filterState, rawTimestamps))
             IN  {<<timestamp,
                    SumProbability(monthData, selectedDepths, cell_id,
                                   IndexOf(rawTimestamps, timestamp))>> :
                  timestamp \in
                     {finalFilteredTimestamps[i] : i \in
                        {h \in 1 .. Len(finalFilteredTimestamps) :
                            HasData(monthData, selectedDepths, cell_id,
                                    IndexOf(rawTimestamps, finalFilteredTimestamps[h]))}}}

\* allProbabilities of one cell of geometries.forEach
AllProbabilities(p, cell_id) ==
    LET cellMaxDepth == getCellMaxDepth(p.cellMaxDepths, cell_id)
        selectedDepths == getSelectedDepthsForCell(p.filterState, cellMaxDepth)
    IN  IF cellMaxDepth = 0 \/ Len(selectedDepths) = 0 THEN {}
        ELSE UNION {MonthProbabilities(p, cell_id, selectedDepths, month) :
                    month \in DOMAIN p.loadedData}

\* Math.min(...values)
MathMin(values) == CHOOSE v \in values : \A u \in values : v <= u

\* riskData: a key for every cell with a value pushed, none for the others
cellMinimumRisk(p) ==
    IF DOMAIN p.loadedData = {} THEN EmptyObject
    ELSE [cell_id \in {c \in Cells : AllProbabilities(p, c) # {}} |->
             MathMin({e[2] : e \in AllProbabilities(p, cell_id)})]

SeriesKeepsInTimeOfDay(filterState, timestamp) ==
    /\ ~(filterState.dateRange.start # 0 /\ timestamp < DateOf(filterState.dateRange.start))
    /\ ~(filterState.dateRange.end # 0 /\ timestamp > DateOf(filterState.dateRange.end))
    /\ isTimestampInTimeOfDay(timestamp, filterState.timeOfDay)

\* if (startDate && date < startDate) return; if (endDate && date > endDate) return
SeriesKeeps(filterState, timestamp) ==
    /\ ~(filterState.dateRange.start # 0 /\ timestamp < DateOf(filterState.dateRange.start))
    /\ ~(filterState.dateRange.end # 0 /\ timestamp > DateOf(filterState.dateRange.end))

\* the (month, depth, index) whose probability is added under a timestamp
SeriesTerms(p, selectedDepths, timestamp) ==
    {e \in (DOMAIN p.loadedData) \X {selectedDepths[i] : i \in 1 .. Len(selectedDepths)}
              \X (1 .. TicksPerMonth) :
        /\ e[2] \in DOMAIN p.loadedData[e[1]]
        /\ p.selectedCell \in DOMAIN p.loadedData[e[1]][e[2]].cells
        /\ e[3] <= Len(p.loadedData[e[1]][e[2]].timestamps)
        /\ p.loadedData[e[1]][e[2]].timestamps[e[3]] = timestamp
        /\ SeriesKeeps(p.filterState, timestamp)}

RECURSIVE SumTerms(_, _)
\* timeSeriesMap.get(timestamp) after every term was added
SumTerms(p, terms) ==
    IF terms = {} THEN 0
    ELSE LET e == CHOOSE t \in terms : TRUE
             cellProbabilities == p.loadedData[e[1]][e[2]].cells[p.selectedCell]
         IN  (IF e[3] <= Len(cellProbabilities) THEN cellProbabilities[e[3]] ELSE 0)
             + SumTerms(p, terms \ {e})

\* timeSeriesData: null, or the points sorted by date
timeSeriesData(p) ==
    LET cellMaxDepth == IF p.selectedCell >= 0
                        THEN getCellMaxDepth(p.cellMaxDepths, p.selectedCell) ELSE 0
        selectedDepths == IF cellMaxDepth = 0 \/ cellMaxDepth \notin DOMAIN p.filterState.depthBins
                          THEN <<>>
                          ELSE SortAscending(p.filterState.depthBins[cellMaxDepth])
        allTimestamps == 0 .. (NumMonths * TicksPerMonth - 1)
        keys == {t \in allTimestamps : SeriesTerms(p, selectedDepths, t) # {}}
        sorted == SortAscending(keys)
    IN  IF p.selectedCell = NoCell \/ p.selectedCell = 0   \* !selectedCell
           \/ cellMaxDepth = 0 \/ Len(selectedDepths) = 0
        THEN [computed |-> FALSE, points |-> <<>>]
        ELSE [computed |-> TRUE,
              points |-> [k \in 1 .. Len(sorted) |->
                  [timestamp |-> sorted[k],
                   probability |-> SumTerms(p, SeriesTerms(p, selectedDepths, sorted[k])),
                   isInTimeOfDay |->
                       isTimestampInTimeOfDay(sorted[k], p.filterState.timeOfDay)]]]

\* minRisk: null (no value) when there is no series or no point
minRisk(p) ==
    LET series == timeSeriesData(p)
    IN  IF ~series.computed \/ Len(series.points) = 0 THEN <<>>
        ELSE <<MathMin({series.points[k].probability : k \in 1 .. Len(series.points)})>>

\* selectedCell ? <RiskTimeSeries .../> : "Select a cell on the map ...", and
\* if (!selectedCell) in RiskTimeSeries: null and the number 0 are falsy
NoCellSelectedView(p) == p.selectedCell = NoCell \/ p.selectedCell = 0

\* FilterPanels.handleDepthChange -> handleFiltersChange: setFilterState
handleDepthChange(newDepthBins) ==
    /\ newDepthBins # props.filterState.depthBins
    /\ props' = [props EXCEPT !.filterState.depthBins = newDepthBins]
    /\ UNCHANGED <<occupancy, monthsCall, movementVars, depthVars, loaderVars>>

\* FilterPanels.handleDateRangeChange -> handleFiltersChange: setFilterState
handleDateRangeChange(newDateRange) ==
    /\ newDateRange.start # 0
    /\ newDateRange # props.filterState.dateRange
    /\ props' = [props EXCEPT !.filterState.dateRange = newDateRange]
    /\ UNCHANGED <<occupancy, monthsCall, movementVars, depthVars, loaderVars>>

\* FilterPanels.handleTimeOfDayChange -> handleFiltersChange: setFilterState
handleTimeOfDayChange(newTimeOfDay) ==
    /\ newTimeOfDay # props.filterState.timeOfDay
    /\ props' = [props EXCEPT !.filterState.timeOfDay = newTimeOfDay]
    /\ UNCHANGED <<occupancy, monthsCall, movementVars, depthVars, loaderVars>>

\* the click handler of a cell: onCellSelect(cellId === selectedCell ? null : cellId)
onCellSelect(cellId) ==
    /\ props' = [props EXCEPT !.selectedCell =
                    IF cellId = props.selectedCell THEN NoCell ELSE cellId]
    /\ UNCHANGED <<occupancy, monthsCall, movementVars, depthVars, loaderVars>>

\* the merge of handleFiltersChange as the map sees it: loadedData gains
\* the chunks of newData
LoadedDataMerge(month, depth) ==
    /\ ~HasChunk(props.loadedData, month, depth)
    /\ props' = [props EXCEPT !.loadedData =
          MergeData(props.loadedData,
                    PutChunk(EmptyObject, month, depth,
                             Chunk(occupancy[month][depth], MonthTimestamps(month))))]
    /\ UNCHANGED <<occupancy, monthsCall, movementVars, depthVars, loaderVars>>

\* handleScenarioChange after its fetches: setCellMaxDepths(cell_max_depths)
SetCellMaxDepths(cell_max_depths) ==
    /\ props.cellMaxDepths = <<>>
    /\ DOMAIN props.loadedData = {}
    /\ props.filterState = DefaultFilterState
    /\ props.selectedCell = NoCell
    /\ cell_max_depths # <<>>
    /\ props' = [props EXCEPT !.cellMaxDepths = cell_max_depths]
    /\ UNCHANGED <<occupancy, monthsCall, movementVars, depthVars, loaderVars>>

\* useState of DepthModel: nothing loaded, nothing selected
(***************************************************************************)
(* getRequiredMonths on calendar dates.  A date string is the number of    *)
(* its day, 0 for null; an instant is a number of day parts since the UTC  *)
(* midnight of day 1.  new Date("YYYY-MM-DD") is the UTC midnight of the   *)
(* day, while getFullYear, getMonth and new Date(y, m, 1) work in the time *)
(* zone of the browser, which is offset day parts ahead of UTC.  A month   *)
(* string is the number of the month, 0 for the month before the first.    *)
(***************************************************************************)
CalendarDates == 1 .. (CalendarMonths * CalendarDays)
TimeZoneOffsets == {0 - 1, 0, 1}
InstantsPerMonth == CalendarDays * DayParts

\* new Date("YYYY-MM-DD")
ParseDate(date) == (date - 1) * DayParts

\* `${d.getFullYear()}-${d.getMonth() + 1}` of an instant
LocalMonth(instant, offset) == (instant + offset + InstantsPerMonth) \div InstantsPerMonth

\* new Date(year, month, 1): the local midnight that starts the month
LocalMonthStart(month, offset) == (month - 1) * InstantsPerMonth - offset

RECURSIVE MonthLoop(_, _, _)
\* while (current <= endDate) { months.push(monthStr); current.setMonth(+1) }
MonthLoop(month, endDate, offset) ==
    IF LocalMonthStart(month, offset) <= endDate
    THEN <<month>> \o MonthLoop(month + 1, endDate, offset)
    ELSE <<>>

\* getRequiredMonths of a date range of calendar dates
getRequiredMonthsOfDates(dateRange, offset) ==
    IF dateRange.start = 0 \/ dateRange.end = 0 THEN <<>>
    ELSE MonthLoop(LocalMonth(ParseDate(dateRange.start), offset),
                   ParseDate(dateRange.end), offset)

\* the date ranges the filter panel applies (start <= end), and the ranges
\* with an unset end
CalendarRanges ==
    {r \in [start : {0} \cup CalendarDates, end : {0} \cup CalendarDates] :
        r.start = 0 \/ r.end = 0 \/ r.start <= r.end}

NoMonthsCall == [offset |-> 0, dateRange |-> [start |-> 0, end |-> 0],
                 returned |-> FALSE, months |-> <<>>]

\* const months = getRequiredMonths(filterState.dateRange)
CallGetRequiredMonths ==
    /\ ~monthsCall.returned
    /\ monthsCall' = [monthsCall EXCEPT
                         !.returned = TRUE,
                         !.months = getRequiredMonthsOfDates(monthsCall.dateRange,
                                                             monthsCall.offset)]
    /\ UNCHANGED <<occupancy, props, movementVars, depthVars, loaderVars>>

\* the next call, with another argument
NextGetRequiredMonths(dateRange) ==
    /\ monthsCall.returned
    /\ monthsCall' = [monthsCall EXCEPT
                         !.returned = FALSE, !.months = <<>>, !.dateRange = dateRange]
    /\ UNCHANGED <<occupancy, props, movementVars, depthVars, loaderVars>>

InitProps ==
    [loadedData |-> EmptyObject, filterState |-> DefaultFilterState,
     cellMaxDepths |-> <<>>, selectedCell |-> NoCell]

InitRiskVars ==
    /\ occupancy = Occupancy(1)
    /\ props = InitProps
    /\ monthsCall = NoMonthsCall

\* the risk components over every table of the backend

InitDepthVars ==
    /\ currentScenario = 0
    /\ loadedData = <<>>
    /\ loadingProgress = [isLoading |-> FALSE]
    /\ calls = [c \in CallIds |-> CallIdle]

InitMovementVars ==
    /\ movementMatrices = <<>>
    /\ calc = CalcIdle

Init == InitMovementVars /\ InitDepthVars /\ InitLoaderVars /\ InitRiskVars

NextDepth ==
    \/ \E f \in FilterStates : HandleFiltersChange(1, f)
    \/ HandleFiltersChangeNoScenario
    \/ StartLoading(1)
    \/ \E k \in 1 .. (NumMonths * NumDepthLayers), ok \in BOOLEAN : FetchSettle(1, k, ok)
    \/ Forget(1)
    \/ \E s \in Scenarios : HandleScenarioChange(s)

\* the depth model with scenario changes, each filter application ending
\* before the next one starts
SpecDepth == Init /\ [][NextDepth]_vars

NextSession ==
    \/ \E c \in CallIds, f \in FilterStates : HandleFiltersChange(c, f)
    \/ HandleFiltersChangeNoScenario
    \/ \E c \in CallIds : StartLoading(c)
    \/ \E c \in CallIds, k \in 1 .. (NumMonths * NumDepthLayers), ok \in BOOLEAN :
          FetchSettle(c, k, ok)
    \/ \E c \in CallIds : Forget(c)
    \/ \E s \in Scenarios : HandleFirstScenario(s)

\* one scenario session of the depth model, with overlapping filter
\* applications: the scenario is chosen once
SpecSession == Init /\ [][NextSession]_vars

NextLoader ==
    \/ \E f \in FilterStates : HandleFiltersChange(1, f)
    \/ HandleFiltersChangeNoScenario
    \/ StartLoading(1)
    \/ \E k \in 1 .. (NumMonths * NumDepthLayers), ok \in BOOLEAN : FetchSettle(1, k, ok)
    \/ Forget(1)
    \/ \E s \in Scenarios : HandleFirstScenario(s)

\* one scenario session in which each filter application ends before the
\* next one starts
SpecLoader == Init /\ [][NextLoader]_vars

NextRetry ==
    \/ \E f \in FilterStates : HandleFiltersChange(1, f)
    \/ \E f \in FilterStates : HandleFiltersChangeAfterReturn(1, f)
    \/ HandleFiltersChangeNoScenario
    \/ StartLoading(1)
    \/ \E k \in 1 .. (NumMonths * NumDepthLayers), ok \in BOOLEAN : FetchSettle(1, k, ok)
    \/ Forget(1)
    \/ \E s \in Scenarios : HandleFirstScenario(s)

\* one scenario session in which each filter application ends before the
\* next one starts, the next one seen as one step from the end of the last
SpecRetry == Init /\ [][NextRetry]_vars

NextMatrixSession ==
    \/ \E s \in Scenarios : HandleFirstScenarioLoad(s)
    \/ \E req \in requests, ok \in BOOLEAN : ScenarioDataSettle(req, ok)
    \/ \E d \in PivotDates : HandleDateChange(d)
    \/ \E req \in requests, ok \in BOOLEAN : MatricesSettle(req, ok)

\* one scenario session of the movement model's matrix store
SpecMatrixSession == Init /\ [][NextMatrixSession]_vars

NextSelection ==
    \/ \E s \in Scenarios : HandleFirstScenarioLoad(s)
    \/ \E req \in requests, ok \in BOOLEAN : ScenarioDataSettle(req, ok)
    \/ \E d \in PivotDates : HandleDateChange(d)
    \/ \E req \in requests, ok \in BOOLEAN : MatricesSettle(req, ok)
    \/ \E cellId \in Cells : handleCellClick(cellId)
    \/ \E cellId \in Cells : onCellSelect(cellId)

\* filter applications and pivot dates of the sessions in which both stores
\* are followed: the first month with the first layer or with the first
\* and the last layer, the first two dates
StoreFilters ==
    {f \in FilterStates :
        /\ f.dateRange.start = 1 /\ f.dateRange.end = 1
        /\ f.depthBins[1] = {1} /\ f.depthBins[NumDepthLayers] \in {{}, {NumDepthLayers}}}
StoreDates == {FirstAvailableDate, FirstAvailableDate + 1}

NextStores ==
    \/ \E f \in StoreFilters : HandleFiltersChange(1, f)
    \/ StartLoading(1)
    \/ \E k \in 1 .. (NumMonths * NumDepthLayers), ok \in BOOLEAN : FetchSettle(1, k, ok)
    \/ Forget(1)
    \/ \E s \in Scenarios : HandleScenarioChange(s)
    \/ \E s \in Scenarios : HandleScenarioLoad(s)
    \/ \E req \in requests, ok \in BOOLEAN : ScenarioDataSettle(req, ok)
    \/ \E d \in StoreDates : HandleDateChange(d)
    \/ \E req \in requests, ok \in BOOLEAN : MatricesSettle(req, ok)

\* the matrix store and the chunk cache across scenario changes
SpecStores == Init /\ [][NextStores]_vars

\* every fetch is answered or fails in the end
FetchesSettle ==
    /\ WF_vars(\E req \in requests, ok \in BOOLEAN : ScenarioDataSettle(req, ok))
    /\ WF_vars(\E req \in requests, ok \in BOOLEAN : MatricesSettle(req, ok))

\* one scenario session of the matrix store in which no fetch hangs
SpecMatrixLoading == Init /\ [][NextMatrixSession]_vars /\ FetchesSettle

\* cell clicks in both models during one scenario session
SpecSelection == Init /\ [][NextSelection]_vars

NextMonths ==
    \/ CallGetRequiredMonths
    \/ \E dateRange \in CalendarRanges : NextGetRequiredMonths(dateRange)

InitMonths ==
    /\ InitMovementVars
    /\ InitDepthVars
    /\ InitLoaderVars
    /\ occupancy = Occupancy(1)
    /\ props = InitProps
    /\ monthsCall \in [offset : TimeZoneOffsets, dateRange : CalendarRanges,
                        returned : {FALSE}, months : {<<>>}]

\* getRequiredMonths on every date range, in a browser of every time zone
SpecMonths == InitMonths /\ [][NextMonths]_vars

NextRisk ==
    \/ \E newDepthBins \in DepthSelections : handleDepthChange(newDepthBins)
    \/ \E newDateRange \in DayRanges : handleDateRangeChange(newDateRange)
    \/ \E newTimeOfDay \in TimeOfDaySelections : handleTimeOfDayChange(newTimeOfDay)
    \/ \E cellId \in Cells : onCellSelect(cellId)
    \/ \E month \in Months, depth \in Depths : LoadedDataMerge(month, depth)
    \/ \E cell_max_depths \in CellMaxDepthArrays : SetCellMaxDepths(cell_max_depths)

InitRisk ==
    /\ InitMovementVars
    /\ InitDepthVars
    /\ InitLoaderVars
    /\ occupancy \in OccupancyPool
    /\ props = InitProps
    /\ monthsCall = NoMonthsCall

\* the risk map and the time series under every change of their props, over
\* every table of the backend
SpecRisk == InitRisk /\ [][NextRisk]_vars

NextMovement ==
    \/ \E fn \in {"projection", "basin"}, S \in SUBSET Cells,
          t \in PivotDates, w \in Windows : CalcStart(fn, S, t, w)
    \/ CalcMultiply
    \/ CalcFinish
    \/ DependencyChange
    \/ \E d \in Dates, M \in MatrixPool : MergeMatrices([x \in {d} |-> M])

SpecMovement == Init /\ [][NextMovement]_vars

(***************************************************************************)
(* Reference linear algebra for the statements about the calculators,      *)
(* written over sets and independent of the loops above.                   *)
(***************************************************************************)
RECURSIVE SetSum(_, _)
SetSum(f, D) ==
    IF D = {} THEN 0
    ELSE LET e == CHOOSE e \in D : TRUE IN f[e] + SetSum(f, D \ {e})

\* the matrix product A . B
Product(A, B) ==
    [i \in Cells |-> [j \in Cells |-> SetSum([k \in Cells |-> A[i][k] * B[k][j]], Cells)]]

\* the column vector A . v
Apply(A, v) == [i \in Cells |-> SetSum([j \in Cells |-> A[i][j] * v[j]], Cells)]

\* the row vector v^T . A
ApplyLeft(v, A) == [j \in Cells |-> SetSum([i \in Cells |-> v[i] * A[i][j]], Cells)]

Indicator(S) == [i \in Cells |-> IF i \in S THEN 1 ELSE 0]

RECURSIVE ChainDescending(_, _, _)
\* M(hi) . M(hi-1) . ... . M(lo)
ChainDescending(store, hi, lo) ==
    IF hi = lo THEN store[lo]
    ELSE Product(store[hi], ChainDescending(store, hi - 1, lo))

RECURSIVE ChainAscending(_, _, _)
\* M(lo) . M(lo+1) . ... . M(hi)
ChainAscending(store, lo, hi) ==
    IF hi = lo THEN store[lo]
    ELSE Product(store[lo], ChainAscending(store, lo + 1, hi))

RECURSIVE BasinRow(_, _, _, _)
\* ((x^T . M(t-1)) . M(t-2)) ... . M(t-w)
BasinRow(store, t, w, x) ==
    IF w = 0 THEN x
    ELSE ApplyLeft(BasinRow(store, t, w - 1, x), store[t - w])

ForwardRange(t, w) == {t + i : i \in 0 .. (w - 1)}
BasinRange(t, w) == {t - i : i \in 1 .. w}
RangeOf(fn, t, w) == IF fn = "projection" THEN ForwardRange(t, w) ELSE BasinRange(t, w)

CalcReturned(fn) == calc.pc = "done" /\ calc.called /\ calc.fn = fn

SingleStep(fn, c) ==
    /\ CalcReturned(fn)
    /\ calc.timeWindow = 1
    /\ calc.selectedCells = {c}
    /\ RangeOf(fn, calc.currentDate, 1) \subseteq DOMAIN movementMatrices

\* C17 as stated: forward projection with window 1 and the single selected
\* cell c returns row c of M, result[j] = M[c][j].
C17_ForwardRowOfM ==
    \A c \in Cells :
        SingleStep("projection", c)
        => \A j \in Cells :
              calc.analysisData[j] = movementMatrices[calc.currentDate][c][j]

\* C17 as amended: forward projection with window 1 and the single selected
\* cell c returns column c of M, result[j] = M[j][c].
C17_ForwardColumnOfM ==
    \A c \in Cells :
        SingleStep("projection", c)
        => /\ calc.returned = "object"
           /\ DOMAIN calc.analysisData = Cells
           /\ \A j \in Cells :
                 calc.analysisData[j] = movementMatrices[calc.currentDate][j][c]

\* a one-step projection on a matrix whose row c and column c differ
C17_Witness ==
    \E c \in Cells :
        /\ SingleStep("projection", c)
        /\ \E j \in Cells :
              movementMatrices[calc.currentDate][j][c]
                 # movementMatrices[calc.currentDate][c][j]

\* C18 as stated: basin attribution with window 1 and the single selected
\* cell c returns column c of M, result[j] = M[j][c].
C18_BasinColumnOfM ==
    \A c \in Cells :
        SingleStep("basin", c)
        => \A j \in Cells :
              calc.analysisData[j] = movementMatrices[calc.currentDate - 1][j][c]

\* C18 as amended: basin attribution with window 1 and the single selected
\* cell c returns row c of M, result[j] = M[c][j].
C18_BasinRowOfM ==
    \A c \in Cells :
        SingleStep("basin", c)
        => /\ calc.returned = "object"
           /\ DOMAIN calc.analysisData = Cells
           /\ \A j \in Cells :
                 calc.analysisData[j] = movementMatrices[calc.currentDate - 1][c][j]

\* a one-step basin on a matrix whose row c and column c differ
C18_Witness ==
    \E c \in Cells :
        /\ SingleStep("basin", c)
        /\ \E j \in Cells :
              movementMatrices[calc.currentDate - 1][j][c]
                 # movementMatrices[calc.currentDate - 1][c][j]

\* the analysis of an empty selection has been asked for with every matrix
\* of the window present
EmptySelectionAsked ==
    /\ calc.pc = "done"
    /\ calc.fn # "none"
    /\ calc.selectedCells = {}
    /\ RangeOf(calc.fn, calc.currentDate, calc.timeWindow) \subseteq DOMAIN movementMatrices

\* C19 as stated: with all w matrices present the analysis of an empty
\* selection is a result that maps every cell id of [0, N) to 0.
C19_EmptySelectionZeroVector ==
    EmptySelectionAsked
    => /\ calc.returned = "object"
       /\ calc.analysisData = [i \in Cells |-> 0]

\* C19 as amended: with all w matrices present the analysis of an empty
\* selection is the absent result null: no calculation function is called,
\* nothing is multiplied and nothing is warned of; a non-empty selection
\* gives a result with a value for every cell id of [0, N).
C19_EmptySelectionAbsent ==
    /\ EmptySelectionAsked
       => /\ calc.returned = "null"
          /\ ~calc.called
          /\ calc.mults = 0
          /\ calc.warned = <<>>
          /\ calc.analysisData = EmptyObject
    /\ (/\ calc.pc = "done"
        /\ calc.selectedCells # {}
        /\ RangeOf(calc.fn, calc.currentDate, calc.timeWindow) \subseteq DOMAIN movementMatrices)
       => /\ calc.returned = "object"
          /\ DOMAIN calc.analysisData = Cells

\* an empty selection met a full window of matrices
C19_Witness ==
    /\ EmptySelectionAsked
    /\ calc.timeWindow = MaxWindow

(***************************************************************************)
(* Statements about the chunk cache and resolver.                          *)
(***************************************************************************)
Range(seq) == {seq[k] : k \in 1 .. Len(seq)}

\* the (month, depth) keys of a cache
CacheKeys(data) ==
    {p \in Months \X Depths : p[1] \in DOMAIN data /\ p[2] \in DOMAIN data[p[1]]}

ChunkAt(data, p) == data[p[1]][p[2]]

Pending(c) == {k \in 1 .. Len(calls[c].chunks) : calls[c].status[k] = "pending"}

\* C4: at every moment of a loadDataChunks run at most 3 fetches are in
\* flight, and a fetch of a later batch is issued only when every fetch of
\* the batches before it has settled.
C4_BatchedFetches ==
    \A c \in CallIds :
        /\ Cardinality(Pending(c)) <= 3
        /\ \A k, h \in 1 .. Len(calls[c].chunks) :
              (/\ calls[c].status[k] # "unissued"
               /\ (h - 1) \div 3 < (k - 1) \div 3)
              => calls[c].status[h] \in {"ok", "failed"}

\* a second batch is in flight after a first batch of 3 with a failure in it
C4_Witness ==
    \E c \in CallIds :
        /\ calls[c].pc = "loading"
        /\ \E k \in Pending(c) : k > 3
        /\ \E h \in 1 .. 3 : calls[c].status[h] = "failed"

\* C5: both stores hold only data fetched for the current scenario (the
\* statement for the chunk cache: every cached chunk is the current
\* scenario's response for its key).
C5_OnlyCurrentScenarioData ==
    \A p \in CacheKeys(loadedData) :
        ChunkAt(loadedData, p).cells = ResponseCells(currentScenario, p[1], p[2])

WholeChunk(s, p) ==
    [cells |-> ResponseCells(s, p[1], p[2]), timestamps |-> ResponseTimestamps(s, p[1], p[2])]

\* C7: every cache entry is the whole response (cells and timestamps
\* together) of a fetch of exactly its (month, depth); an entry is written
\* only by the merge of a call that listed its key as missing and whose fetch
\* of that key succeeded.
C7_ChunkAtomic ==
    /\ [](\A p \in CacheKeys(loadedData) :
              \E s \in Scenarios : ChunkAt(loadedData, p) = WholeChunk(s, p))
    /\ [][\A p \in CacheKeys(loadedData') :
              (p \notin CacheKeys(loadedData) \/ ChunkAt(loadedData', p) # ChunkAt(loadedData, p))
              => \E c \in CallIds :
                    /\ calls[c].pc = "loading"
                    /\ calls'[c].pc = "returned"
                    /\ \E k \in 1 .. Len(calls[c].chunks) :
                          /\ calls[c].chunks[k] = p
                          /\ calls'[c].status[k] = "ok"
                    /\ ChunkAt(loadedData', p) = WholeChunk(calls[c].scenarioId, p)]_vars

\* a merge has just written some chunks of a call of which another failed
C7_Witness ==
    \E c \in CallIds :
        /\ calls[c].pc = "returned"
        /\ \E k, h \in 1 .. Len(calls[c].chunks) :
              /\ calls[c].status[k] = "ok"
              /\ calls[c].status[h] = "failed"
              /\ calls[c].chunks[k] \in CacheKeys(loadedData)
              /\ calls[c].chunks[h] \notin CacheKeys(loadedData)

RequiredPairs(c) == Range(calls[c].months) \X Range(calls[c].depths)

\* the cache handed to loadRequiredData holds every required pair
CompleteCache(c) == RequiredPairs(c) \subseteq CacheKeys(calls[c].currentData)

\* C8: a resolve whose required pairs are all in the cache returns an empty
\* result, issues no fetch and makes no progress call.
C8_ResolveIdempotent ==
    \A c \in CallIds :
        (calls[c].pc \in {"resolved", "returned"} /\ CompleteCache(c))
        => /\ calls[c].chunks = <<>>
           /\ calls[c].results = <<>>
           /\ calls[c].progress = <<>>
           /\ calls[c].loaded = 0

\* a resolve has returned for a non-empty requirement that earlier loads
\* satisfied
C8_Witness ==
    \E c \in CallIds :
        /\ calls[c].pc = "returned"
        /\ Cardinality(RequiredPairs(c)) > 1
        /\ CompleteCache(c)
        /\ calls[c].results = <<>>

\* C9: getMissingChunks returns exactly the required pairs without a cache
\* entry, each once; it is empty iff every required pair is cached.
C9_MissingExact ==
    \A c \in CallIds :
        calls[c].pc = "resolved"
        => LET miss == RequiredPairs(c) \ CacheKeys(calls[c].currentData)
           IN  /\ Range(calls[c].chunks) = miss
               /\ Len(calls[c].chunks) = Cardinality(miss)
               /\ (calls[c].chunks = <<>>) <=> CompleteCache(c)

\* the cache lacks exactly one of several required pairs
C9_Witness ==
    \E c \in CallIds :
        /\ calls[c].pc = "resolved"
        /\ Cardinality(RequiredPairs(c)) = NumMonths * NumDepthLayers
        /\ Len(calls[c].chunks) = 1

SettledChunks(c) ==
    {k \in 1 .. Len(calls[c].chunks) : calls[c].status[k] \in {"ok", "failed"}}

\* C10: the progress callback is called once per settled chunk, failed or
\* not; call number j reports (j, number of requested chunks); when
\* loadDataChunks has returned the last call reported completed = total.
C10_ProgressPerChunk ==
    \A c \in CallIds :
        /\ Len(calls[c].progress) = Cardinality(SettledChunks(c))
        /\ \A j \in 1 .. Len(calls[c].progress) :
              calls[c].progress[j] = <<j, Len(calls[c].chunks)>>
        /\ (calls[c].pc = "returned" /\ calls[c].chunks # <<>>)
              => calls[c].progress[Len(calls[c].progress)]
                    = <<Len(calls[c].chunks), Len(calls[c].chunks)>>

\* a load of several chunks has returned with a failed and a successful fetch
C10_Witness ==
    \E c \in CallIds :
        /\ calls[c].pc = "returned"
        /\ Len(calls[c].chunks) > Concurrency
        /\ \E k, h \in 1 .. Len(calls[c].chunks) :
              calls[c].status[k] = "ok" /\ calls[c].status[h] = "failed"

\* C11: a failed fetch neither stops loadDataChunks nor keeps another chunk
\* from being fetched: a running load always has a fetch in flight, and a
\* returned load has attempted every requested chunk and returns exactly
\* the chunks whose fetch succeeded, each whole.
C11_FailureIsolated ==
    \A c \in CallIds :
        /\ calls[c].pc = "loading" => Pending(c) # {}
        /\ calls[c].pc = "returned"
           => /\ SettledChunks(c) = 1 .. Len(calls[c].chunks)
              /\ CacheKeys(calls[c].results)
                    = {calls[c].chunks[k] : k \in {h \in SettledChunks(c) : calls[c].status[h] = "ok"}}
              /\ \A p \in CacheKeys(calls[c].results) :
                    ChunkAt(calls[c].results, p) = WholeChunk(calls[c].scenarioId, p)

\* a load returned after a failure in its first batch and a success in its
\* second batch
C11_Witness ==
    \E c \in CallIds :
        /\ calls[c].pc = "returned"
        /\ \E k, h \in 1 .. Len(calls[c].chunks) :
              /\ k <= 3 /\ h > 3
              /\ calls[c].status[k] = "failed"
              /\ calls[c].status[h] = "ok"

CategoryOf(cell) ==
    IF cell + 1 \in DOMAIN props.cellMaxDepths THEN props.cellMaxDepths[cell + 1] ELSE 0

\* the depth layers selected for a category
SelectionOf(category) ==
    IF category \in DOMAIN props.filterState.depthBins
    THEN props.filterState.depthBins[category] ELSE {}

InDateRange(t) ==
    \/ props.filterState.dateRange.start = 0
    \/ props.filterState.dateRange.end = 0
    \/ /\ (props.filterState.dateRange.start - 1) * TicksPerDay <= t
       /\ t <= (props.filterState.dateRange.end - 1) * TicksPerDay

\* closed intervals: start <= time of day <= end for some range
InTimeOfDay(t) ==
    \/ props.filterState.timeOfDay = {}
    \/ \E r \in props.filterState.timeOfDay : r.start <= t % TicksPerDay /\ t % TicksPerDay <= r.end

LoadedMonths == DOMAIN props.loadedData

\* the timestamps of a loaded month
TimestampsOf(m) ==
    {(m - 1) * TicksPerMonth + k : k \in 0 .. (TicksPerMonth - 1)}

\* the cell's probability at timestamp t in depth layer d, as the backend has it
ProbabilityAt(cell, d, t) ==
    occupancy[(t \div TicksPerMonth) + 1][d][cell][(t % TicksPerMonth) + 1]

\* the sum over all depth layers of a selection
SummedProbability(cell, selection, t) ==
    SetSum([d \in selection |-> ProbabilityAt(cell, d, t)], selection)

\* the timestamps of the loaded months that pass both filters
Qualifying ==
    {t \in UNION {TimestampsOf(m) : m \in LoadedMonths} : InDateRange(t) /\ InTimeOfDay(t)}

\* every selected layer is in the cache for every loaded month that has a
\* timestamp within the date range
LayersLoaded(selection) ==
    \A m \in LoadedMonths :
        (\E t \in TimestampsOf(m) : InDateRange(t)) => selection \subseteq DOMAIN props.loadedData[m]

\* C12: for a cell with a max-depth category and a non-empty selection, the
\* risk is the minimum, over the timestamps of the loaded months that pass
\* the date-range and the time-of-day filter, of the cell's probability
\* summed over all selected layers; stated for the caches that hold every
\* selected layer of the loaded months within the date range (a cache that
\* lacks one is the case of C14).
C12_MinimumOfSums ==
    \A cell \in Cells :
        LET selection == SelectionOf(CategoryOf(cell))
        IN  (/\ CategoryOf(cell) # 0
             /\ selection # {}
             /\ LayersLoaded(selection)
             /\ Qualifying # {})
            => /\ cell \in DOMAIN cellMinimumRisk(props)
               /\ \E t \in Qualifying :
                     cellMinimumRisk(props)[cell] = SummedProbability(cell, selection, t)
               /\ \A t \in Qualifying :
                     cellMinimumRisk(props)[cell] <= SummedProbability(cell, selection, t)

\* the minimum is taken over two months and two layers, lies below the sum
\* at the first qualifying timestamp and above the smallest single
\* probability
C12_Witness ==
    \E cell \in Cells :
        LET selection == SelectionOf(CategoryOf(cell))
        IN  /\ Cardinality(selection) > 1
            /\ Cardinality(LoadedMonths) > 1
            /\ LayersLoaded(selection)
            /\ cell \in DOMAIN cellMinimumRisk(props)
            /\ \E t, u \in Qualifying :
                  /\ t < u
                  /\ \A x \in Qualifying : t <= x
                  /\ SummedProbability(cell, selection, u) = cellMinimumRisk(props)[cell]
                  /\ SummedProbability(cell, selection, t) > cellMinimumRisk(props)[cell]
            /\ \E t \in Qualifying, d \in selection :
                  ProbabilityAt(cell, d, t) < cellMinimumRisk(props)[cell]

MonthIntersectsRange(m) ==
    IF props.filterState.dateRange.start = 0 \/ props.filterState.dateRange.end = 0
    THEN m \in LoadedMonths
    ELSE \E day \in ((m - 1) * DaysPerMonth + 1) .. (m * DaysPerMonth) :
          props.filterState.dateRange.start <= day /\ day <= props.filterState.dateRange.end

\* a chunk the filters require for the cell is not in the cache
RequiredChunkAbsent(cell) ==
    \E m \in Months, d \in SelectionOf(CategoryOf(cell)) :
        /\ MonthIntersectsRange(m)
        /\ ~(m \in DOMAIN props.loadedData /\ d \in DOMAIN props.loadedData[m])

\* C14: a cell for which a required chunk (a month intersecting the date
\* range, a layer selected for the cell's category) is absent from the cache
\* has no numeric risk.
C14_NoPartialRisk ==
    \A cell \in Cells :
        (CategoryOf(cell) # 0 /\ RequiredChunkAbsent(cell))
            => cell \notin DOMAIN cellMinimumRisk(props)

\* the time of day of a timestamp lies in the closed interval of a range
InClosedInterval(t, r) == r.start <= t % TicksPerDay /\ t % TicksPerDay <= r.end

\* the time of day of a timestamp lies in the half-open interval of a range
InHalfOpenInterval(t, r) == r.start <= t % TicksPerDay /\ t % TicksPerDay < r.end

\* the timestamps of a month the map's time-of-day filter lets through,
\* under the date range dr
MapQualifies(m, dr) ==
    LET kept == filterTimestampsByTimeOfDay(
                    [props.filterState EXCEPT !.dateRange = dr], MonthTimestamps(m))
    IN  {kept[i] : i \in 1 .. Len(kept)}

\* the points of the time series of the selected cell
SeriesPoints ==
    LET series == timeSeriesData(props)
    IN  IF series.computed THEN {series.points[i] : i \in 1 .. Len(series.points)} ELSE {}

\* C15 as stated: with intervals configured, a timestamp qualifies exactly
\* if start <= t < end for one of them, whatever the date range.
C15_HalfOpenIntervals ==
    props.filterState.timeOfDay # {} =>
        /\ \A m \in Months, dr \in DayRanges : \A t \in TimestampsOf(m) :
              t \in MapQualifies(m, dr)
                  <=> \E r \in props.filterState.timeOfDay : InHalfOpenInterval(t, r)
        /\ \A point \in SeriesPoints :
              point.isInTimeOfDay
                  <=> \E r \in props.filterState.timeOfDay : InHalfOpenInterval(point.timestamp, r)

\* C15: a timestamp qualifies exactly if start <= t <= end for one of the
\* configured intervals (every timestamp when none is configured), in the
\* map's filter and in the tags of the time series alike, whatever the date
\* range.
C15_ClosedIntervals ==
    /\ \A m \in Months, dr \in DayRanges : \A t \in TimestampsOf(m) :
          t \in MapQualifies(m, dr)
              <=> \/ props.filterState.timeOfDay = {}
                  \/ \E r \in props.filterState.timeOfDay : InClosedInterval(t, r)
    /\ \A point \in SeriesPoints :
          point.isInTimeOfDay
              <=> \/ props.filterState.timeOfDay = {}
                  \/ \E r \in props.filterState.timeOfDay : InClosedInterval(point.timestamp, r)

\* one interval ending before the last time of day is configured and a date
\* range is set; the series has a point exactly at the interval's end,
\* tagged within, and a later point of the same day tagged outside
C15_Witness ==
    /\ props.filterState.dateRange.start # 0
    /\ \E r \in props.filterState.timeOfDay :
          /\ props.filterState.timeOfDay = {r}
          /\ \E inside, outside \in SeriesPoints :
                /\ inside.timestamp % TicksPerDay = r.end
                /\ inside.isInTimeOfDay
                /\ outside.timestamp = inside.timestamp + 1
                /\ outside.timestamp % TicksPerDay > r.end
                /\ ~outside.isInTimeOfDay
                /\ inside.timestamp \in MapQualifies(1, props.filterState.dateRange)
                      \cup MapQualifies(2, props.filterState.dateRange)

\* the timestamps the cache holds for the selected cell: those of the loaded
\* chunks of the layers selected for its category
LoadedTimestamps ==
    UNION {TimestampsOf(m) : m \in {month \in LoadedMonths :
        \E d \in SelectionOf(CategoryOf(props.selectedCell)) : d \in DOMAIN props.loadedData[month]}}

\* the series without the tags: its (timestamp, value) pairs in order
Untagged(series) ==
    [k \in 1 .. Len(series.points) |->
        <<series.points[k].timestamp, series.points[k].probability>>]

\* the step changes the time-of-day intervals and nothing else
TimeOfDayStep ==
    /\ props'.filterState.timeOfDay # props.filterState.timeOfDay
    /\ props' = [props EXCEPT !.filterState.timeOfDay = props'.filterState.timeOfDay]

\* C16: the series of the selected cell has exactly one point for every
\* loaded timestamp within the date range, in chronological order, whatever
\* the time-of-day intervals are; a change of the intervals leaves the
\* points' timestamps and values and the series minimum as they were.
C16_SeriesIgnoresTimeOfDay ==
    /\ [](timeSeriesData(props).computed =>
            LET points == timeSeriesData(props).points
            IN  /\ {points[k].timestamp : k \in 1 .. Len(points)}
                      = {t \in LoadedTimestamps : InDateRange(t)}
                /\ \A j, k \in 1 .. Len(points) :
                      j < k => points[j].timestamp < points[k].timestamp)
    /\ [][TimeOfDayStep =>
            /\ timeSeriesData(props').computed = timeSeriesData(props).computed
            /\ Untagged(timeSeriesData(props')) = Untagged(timeSeriesData(props))
            /\ minRisk(props') = minRisk(props)]_vars

\* a series with points tagged within and points tagged outside, after the
\* intervals were changed from their default
C16_Witness ==
    /\ timeSeriesData(props).computed
    /\ props.filterState.timeOfDay # DefaultFilterState.timeOfDay
    /\ props.filterState.timeOfDay # {}
    /\ props.filterState.dateRange.start # 0
    /\ minRisk(props) # <<>>
    /\ \E a, b \in SeriesPoints :
          /\ a.isInTimeOfDay
          /\ ~b.isInTimeOfDay
          /\ b.probability = minRisk(props)[1]
          /\ a.probability > b.probability
    /\ \E t \in LoadedTimestamps : ~InDateRange(t)

\* the selected cell has a depth assignment, a non-empty depth selection and
\* a loaded timestamp inside the date range
SelectedCellHasData ==
    /\ props.selectedCell \in Cells
    /\ CategoryOf(props.selectedCell) # 0
    /\ SelectionOf(CategoryOf(props.selectedCell)) # {}
    /\ \E t \in LoadedTimestamps : InDateRange(t)

\* C30: for every selected cell id of 0 .. N-1 that has a depth assignment,
\* a non-empty depth selection and a loaded timestamp inside the date range,
\* the time series is computed and non-empty and the view is not in its
\* "no cell selected" state.
C30_EveryCellSelectable ==
    SelectedCellHasData =>
        /\ ~NoCellSelectedView(props)
        /\ timeSeriesData(props).computed
        /\ Len(timeSeriesData(props).points) > 0

\* the values of the series points tagged as within the time-of-day filter
TaggedValues == {point.probability : point \in {q \in SeriesPoints : q.isInTimeOfDay}}

\* C29: for the selected cell, the risk shown on the map equals the minimum
\* of the time-series values over the points tagged within the time-of-day
\* filter, and the map has no value exactly when the series has no such
\* point, for every cache and filter state.
C29_MapAgreesWithSeries ==
    props.selectedCell \in Cells =>
        /\ props.selectedCell \in DOMAIN cellMinimumRisk(props) <=> TaggedValues # {}
        /\ props.selectedCell \in DOMAIN cellMinimumRisk(props)
              => cellMinimumRisk(props)[props.selectedCell] = MathMin(TaggedValues)

(***************************************************************************)
(* Statements about the selection.                                         *)
(***************************************************************************)
\* the cell ids of the movement model's selection
SelectedSet == {selectedCells[k] : k \in 1 .. Len(selectedCells)}

\* C24: the depth model's selection is none or one cell id, a click on an
\* unselected cell makes it the selection and a click on the selected cell
\* clears it; in the movement model a click toggles the membership of the
\* clicked cell only and the selection never holds an id twice.
C24_SelectionToggles ==
    /\ [](/\ props.selectedCell \in {NoCell} \cup Cells
          /\ SelectedSet \subseteq Cells
          /\ Cardinality(SelectedSet) = Len(selectedCells))
    /\ [][\A cellId \in Cells :
            /\ onCellSelect(cellId) =>
                  props'.selectedCell = IF props.selectedCell = cellId THEN NoCell ELSE cellId
            /\ handleCellClick(cellId) =>
                  /\ cellId \in SelectedSet' <=> cellId \notin SelectedSet
                  /\ SelectedSet' \ {cellId} = SelectedSet \ {cellId}
                  /\ \A j, k \in 1 .. Len(selectedCells') :
                        selectedCells'[j] = selectedCells'[k] => j = k]_vars

\* both cells are selected in the movement model, the second one clicked
\* first, and cell 0 is the depth model's selection
C24_Witness ==
    /\ selectedCells = <<1, 0>>
    /\ props.selectedCell = 0

(***************************************************************************)
(* Statements about the required date range and the loading of matrices.   *)
(***************************************************************************)
\* pivot - maxWindow .. pivot + maxWindow, clipped to the dates of the scenario
ClippedRange(pivot) == ((pivot - MaxWindow) .. (pivot + MaxWindow)) \cap Dates

\* C22: the range required for the pivot date is the window around it
\* clipped to the scenario's valid dates, and matrices are reported missing
\* exactly if a date of the clipped range has no matrix in the store.
C22_RequiredRangeClipped ==
    (appScenario # 0 /\ currentDate # 0) =>
        LET requiredRange == getRequiredDateRange(currentDate, appScenario)
        IN  /\ requiredRange.start .. requiredRange.end = ClippedRange(currentDate)
            /\ needsMatrices(requiredRange, movementMatrices)
                  <=> \E d \in ClippedRange(currentDate) : d \notin DOMAIN movementMatrices

\* no fetch of matrices is in flight
MatricesQuiet == \A req \in requests : req.kind # "matrices"

\* C25: once the scenario and the pivot date stay as they are, the fetches
\* of matrices come to an end: from some point on none is in flight and
\* none is issued.
C25_LoadingQuiesces ==
    \A s \in Scenarios, d \in PivotDates :
        <>[](appScenario = s /\ currentDate = d)
            => \E n \in 0 .. (NumFetchCounts - 1) : <>[](MatricesQuiet /\ fetchesIssued = n)

(***************************************************************************)
(* Statements about the lifetime of the two stores.                        *)
(***************************************************************************)
\* the step is a scenario change of the depth model
DepthScenarioStep == \E s \in Scenarios : HandleScenarioChange(s)

\* the step is a scenario change of the movement model
AppScenarioStep == \E s \in Scenarios : HandleScenarioLoad(s)

\* C21: a step that is not a scenario change keeps every key of the matrix
\* store and of the chunk cache; a scenario change leaves the store of its
\* model empty.
C21_StoresClearedOnScenarioChange ==
    [][/\ ~DepthScenarioStep => CacheKeys(loadedData) \subseteq CacheKeys(loadedData')
       /\ DepthScenarioStep => loadedData' = EmptyObject
       /\ ~AppScenarioStep => DOMAIN movementMatrices \subseteq DOMAIN movementMatrices'
       /\ AppScenarioStep => movementMatrices' = EmptyObject]_vars

\* both models have changed the scenario while a fetch of the previous one
\* was running: the stores are empty, and data of the new scenario has been
\* requested
C21_Witness ==
    /\ loadedData = EmptyObject
    /\ calls[1].pc = "loading"
    /\ calls[1].scenarioId # currentScenario
    /\ movementMatrices = EmptyObject
    /\ \E old, new \in requests :
          /\ old.kind = "matrices" /\ old.scenarioId # appScenario
          /\ new.kind = "habitat" /\ new.scenarioId = appScenario

(***************************************************************************)
(* Statements about the months of a date range.                            *)
(***************************************************************************)
\* the calendar month of a date
MonthOfDate(date) == ((date - 1) \div CalendarDays) + 1

\* the calendar months with a day in [start, end]
IntersectingMonths(dateRange) ==
    IF dateRange.start = 0 \/ dateRange.end = 0 THEN {}
    ELSE {MonthOfDate(date) : date \in dateRange.start .. dateRange.end}

\* C23: getRequiredMonths returns exactly the calendar months that
\* intersect [start, end], ascending and without duplicates, and the empty
\* list when start or end is unset.
C23_MonthsOfRange ==
    monthsCall.returned =>
        /\ {monthsCall.months[k] : k \in 1 .. Len(monthsCall.months)}
              = IntersectingMonths(monthsCall.dateRange)
        /\ \A j, k \in 1 .. Len(monthsCall.months) :
              j < k => monthsCall.months[j] < monthsCall.months[k]

(***************************************************************************)
(* Statements about overlapping filter applications.                       *)
(***************************************************************************)
\* the chunks a call has requested from the backend
Requested(c) ==
    {calls[c].chunks[k] : k \in {j \in 1 .. Len(calls[c].chunks) :
                                    calls[c].status[j] # "unissued"}}

\* no fetch of a running call has failed
NoFetchFailed ==
    \A c \in CallIds : \A k \in 1 .. Len(calls[c].chunks) : calls[c].status[k] # "failed"

\* C26: within one scenario session and without failed fetches no chunk is
\* requested by two filter applications, also when the second starts while
\* the fetches of the first are in flight.
C26_ChunkRequestedOnce ==
    NoFetchFailed =>
        \A a, b \in CallIds : a # b => Requested(a) \cap Requested(b) = {}

\* C27: the loading flag is set whenever a fetch of a chunk has not settled,
\* also when two filter applications overlap and the earlier one finishes
\* first.
C27_LoadingWhileFetching ==
    (\E c \in CallIds : Pending(c) # {}) => loadingProgress.isLoading

(***************************************************************************)
(* Statements about failed fetches and the next resolve.                   *)
(***************************************************************************)
\* the chunks of a call whose fetch ended with the given status
ChunksWithStatus(c, st) ==
    {calls[c].chunks[k] : k \in {j \in 1 .. Len(calls[c].chunks) : calls[c].status[j] = st}}

\* C28: after the merge the cache holds the chunks whose fetch succeeded and
\* not the ones whose fetch failed; the next resolve lists a failed chunk as
\* missing if its filters still require it, and lists none of the chunks
\* that succeeded; every chunk a resolve lists is requested.
C28_FailedChunkRetried ==
    /\ [](\A c \in CallIds :
            /\ calls[c].pc = "returned"
               => /\ ChunksWithStatus(c, "failed") \cap CacheKeys(loadedData) = {}
                  /\ ChunksWithStatus(c, "ok") \subseteq CacheKeys(loadedData)
                  /\ ChunksWithStatus(c, "unissued") = {}
            /\ calls[c].pc = "loading"
               => \A k \in Batch(calls[c].chunks, calls[c].i) :
                     calls[c].status[k] # "unissued")
    /\ [][\A f \in FilterStates :
            HandleFiltersChangeAfterReturn(1, f)
                => /\ ChunksWithStatus(1, "failed") \cap RequiredPairs(1)'
                         \subseteq Range(calls[1].chunks)'
                   /\ ChunksWithStatus(1, "ok") \cap Range(calls[1].chunks)' = {}]_vars

\* a resolve has returned with a failed and a successful fetch and its
\* result is merged
C28_Witness ==
    /\ calls[1].pc = "returned"
    /\ ChunksWithStatus(1, "failed") # {}
    /\ ChunksWithStatus(1, "ok") # {}
    /\ ChunksWithStatus(1, "ok") \subseteq CacheKeys(loadedData)

====
